---- MODULE Spec2Model ----
(***************************************************************************)
(* Model of the relay decision engine of the ESP32 monitoring/automation   *)
(* firmware: src/src/components/RelayManager.{h,cpp}.                       *)
(*                                                                         *)
(* The manager keeps a table of eight RelayConfig records and two global   *)
(* configuration blocks behind one FreeRTOS mutex created with             *)
(* xSemaphoreCreateMutex(), i.e. a NON-recursive mutex.  Every operation   *)
(* takes it with xSemaphoreTake(_relayMutex, pdMS_TO_TICKS(1000)).  A take *)
(* by the task that already holds the mutex can only be satisfied by a     *)
(* give, and only the holder gives, so such a nested take waits out its    *)
(* 1000 ms and fails.  The operators below thread the mutex holder through *)
(* every call so that this is computed, not assumed.                       *)
(*                                                                         *)
(* Time is in milliseconds.  The 32-bit millis() counter is modelled with  *)
(* the reduced width ClockBits.                                            *)
(***************************************************************************)
EXTENDS Integers, Sequences, FiniteSets, TLC

-----------------------------------------------------------------------------
(* Enumerations: src/src/utils/Constants.h *)

OFF == "OFF"

ON == "ON"

AUTO == "AUTO"

RelayState == {OFF, ON, AUTO}

MANUAL == "MANUAL"

SCHEDULE == "SCHEDULE"

ENVIRONMENTAL == "ENVIRONMENTAL"

DEPENDENT == "DEPENDENT"

RelayTrigger == {MANUAL, SCHEDULE, ENVIRONMENTAL, DEPENDENT}

-----------------------------------------------------------------------------
(* Program constants *)

NumRelays == 8

DEFAULT_RELAY1_PIN == 16

DEFAULT_RELAY2_PIN == 17

DEFAULT_RELAY3_PIN == 19

DEFAULT_RELAY4_PIN == 26

DEFAULT_RELAY5_PIN == 33

DEFAULT_RELAY6_PIN == 23

DEFAULT_RELAY7_PIN == 25

DEFAULT_RELAY8_PIN == 35

DEFAULT_HUMIDITY_LOW_THRESHOLD == 50

DEFAULT_HUMIDITY_HIGH_THRESHOLD == 85

DEFAULT_TEMPERATURE_LOW_THRESHOLD == 20

DEFAULT_TEMPERATURE_HIGH_THRESHOLD == 24

DEFAULT_CO2_LOW_THRESHOLD == 1000

DEFAULT_CO2_HIGH_THRESHOLD == 1600

DEFAULT_USER_OVERRIDE_TIME_MIN == 5

DefaultOnDurationMinutes == 5

DefaultIntervalMinutes == 60

-----------------------------------------------------------------------------
(* Bounds of the model *)

\* width of the millis() counter in the model (32 in the firmware)
ClockBits == 21

\* the clock advances in steps of this many milliseconds
AdvanceMs == 300000

\* the clock of specification Spec stops here (no wrap-around inside Spec)
MaxMillis == 600000

ClockMod == 2 ^ ClockBits

RelayIds == 1..NumRelays

\* relay ids the transport layer issues commands for in Spec: a relay with a
\* dependency on the hub (2) and one without (3); 9 is an invalid id
CmdIds == {2, 3}

InvalidIds == {9}

\* setRelayDependency(relayId, hasDependency, dependsOnRelay) calls issued in Spec
DepEdits == {<<2, FALSE, 0>>, <<2, TRUE, 1>>, <<3, TRUE, 2>>, <<3, FALSE, 0>>, <<3, TRUE, 3>>, <<2, TRUE, 9>>}

-----------------------------------------------------------------------------
(* Data model: src/src/components/RelayManager.h *)

\* TimeRange(): 00:00-23:59
DefaultTimeRange == [startHour |-> 0, startMinute |-> 0, endHour |-> 23, endMinute |-> 59]

\* RelayConfig as initRelays() leaves it (name and visible are display-only)
RelayConfig(pin, hasDependency, dependsOnRelay) == [pin |-> pin, operatingTime |-> DefaultTimeRange, hasDependency |-> hasDependency, dependsOnRelay |-> dependsOnRelay, isOn |-> FALSE, state |-> AUTO, lastTrigger |-> MANUAL, overrideUntil |-> 0]

initRelays == [r \in RelayIds |-> CASE r = 1 -> RelayConfig(DEFAULT_RELAY1_PIN, FALSE, 0) [] r = 2 -> RelayConfig(DEFAULT_RELAY2_PIN, TRUE, 1) [] r = 3 -> RelayConfig(DEFAULT_RELAY3_PIN, FALSE, 0) [] r = 4 -> RelayConfig(DEFAULT_RELAY4_PIN, TRUE, 1) [] r = 5 -> RelayConfig(DEFAULT_RELAY5_PIN, TRUE, 1) [] r = 6 -> RelayConfig(DEFAULT_RELAY6_PIN, FALSE, 0) [] r = 7 -> RelayConfig(DEFAULT_RELAY7_PIN, TRUE, 1) [] OTHER -> RelayConfig(DEFAULT_RELAY8_PIN, FALSE, 0)]

Pins == {initRelays[r].pin : r \in RelayIds}

\* RelayConfig(): the record the default constructor makes
DefaultRelayConfig == [pin |-> 0, operatingTime |-> DefaultTimeRange, hasDependency |-> FALSE, dependsOnRelay |-> 0, isOn |-> FALSE, state |-> OFF, lastTrigger |-> MANUAL, overrideUntil |-> 0]

\* _relayConfigs[k] of the std::map: the table after the subscript, which
\* inserts a default-constructed record when there is none with key k
subscript(cfg, k) == IF k \in DOMAIN cfg THEN cfg ELSE [j \in (DOMAIN cfg) \cup {k} |-> IF j = k THEN DefaultRelayConfig ELSE cfg[j]]

CycleConfig == [onDurationMinutes |-> DefaultOnDurationMinutes, intervalMinutes |-> DefaultIntervalMinutes]

EnvironmentalThresholds == [humidityLow |-> DEFAULT_HUMIDITY_LOW_THRESHOLD, humidityHigh |-> DEFAULT_HUMIDITY_HIGH_THRESHOLD, temperatureLow |-> DEFAULT_TEMPERATURE_LOW_THRESHOLD, temperatureHigh |-> DEFAULT_TEMPERATURE_HIGH_THRESHOLD, co2Low |-> DEFAULT_CO2_LOW_THRESHOLD, co2High |-> DEFAULT_CO2_HIGH_THRESHOLD]

\* TimeRange::isInRange with the end minute left out of the window
isInRangeEndExclusive(t, hour, minute) ==
  LET currentMinutes == hour * 60 + minute
      startMinutes == t.startHour * 60 + t.startMinute
      endMinutes == t.endHour * 60 + t.endMinute
  IN IF endMinutes >= startMinutes
     THEN currentMinutes >= startMinutes /\ currentMinutes < endMinutes
     ELSE currentMinutes >= startMinutes \/ currentMinutes < endMinutes

\* TimeRange::isInRange
isInRange(t, hour, minute) ==
  LET currentMinutes == hour * 60 + minute
      startMinutes == t.startHour * 60 + t.startMinute
      endMinutes == t.endHour * 60 + t.endMinute
  IN IF endMinutes >= startMinutes
     THEN currentMinutes >= startMinutes /\ currentMinutes <= endMinutes
     ELSE currentMinutes >= startMinutes \/ currentMinutes <= endMinutes

-----------------------------------------------------------------------------
(* The mutex.  A manager state `st` is [cfg, pinLevel, mutex]: the relay     *)
(* table, the level of every output pin, and the holder of _relayMutex      *)
(* ("none" when free).                                                      *)

\* xSemaphoreTake(_relayMutex, pdMS_TO_TICKS(1000)) by a caller that is running:
\* pdTRUE iff the mutex is free.  When the caller itself holds it (a nested
\* take) nobody can give it during the wait, and the take times out.
xSemaphoreTake(mutex) == mutex = "none"

RECURSIVE physicallyControlRelay(_, _, _, _, _)

RECURSIVE cascadeLoop(_, _, _, _)

RECURSIVE manageDependentRelays(_, _, _, _)

\* the first loop of manageDependentRelays, over the map in key order from k on
cascadeLoop(st, who, relayId, k) ==
  IF k > NumRelays THEN st
  ELSE LET e == st.cfg[k]
           next == IF e.hasDependency /\ e.dependsOnRelay = relayId /\ e.isOn
                   THEN physicallyControlRelay(st, who, k, FALSE, DEPENDENT)
                   ELSE st
       IN cascadeLoop(next, who, relayId, k + 1)

\* manageDependentRelays writing the records of the dependents itself, on or
\* off, instead of calling physicallyControlRelay for those that are on
manageDependentRelaysInline(st, who, relayId, turnOn) ==
  IF turnOn THEN st
  ELSE LET dependent(k) == st.cfg[k].hasDependency /\ st.cfg[k].dependsOnRelay = relayId
       IN [st EXCEPT !.cfg = [k \in DOMAIN st.cfg |-> IF dependent(k) THEN [st.cfg[k] EXCEPT !.isOn = FALSE, !.lastTrigger = DEPENDENT] ELSE st.cfg[k]],
                     !.pinLevel = [p \in DOMAIN st.pinLevel |-> IF \E k \in DOMAIN st.cfg : dependent(k) /\ st.cfg[k].pin = p THEN FALSE ELSE st.pinLevel[p]]]

manageDependentRelays(st, who, relayId, turnOn) ==
  IF turnOn THEN st
  ELSE LET s1 == cascadeLoop(st, who, relayId, 1)
           anyDependentOn == \E k \in RelayIds : k # 1 /\ s1.cfg[k].hasDependency /\ s1.cfg[k].dependsOnRelay = 1 /\ s1.cfg[k].isOn
       IN IF relayId = 1 /\ ~anyDependentOn
          THEN physicallyControlRelay(s1, who, 1, FALSE, DEPENDENT)
          ELSE s1

\* physicallyControlRelay without the test currentlyOn != turnOn: it writes the
\* pin, isOn and lastTrigger on every call
physicallyControlRelayAlways(st, who, relayId, turnOn, trigger) ==
  IF relayId < 1 \/ relayId > 8 THEN st
  ELSE IF ~xSemaphoreTake(st.mutex) THEN st
  ELSE LET held == [st EXCEPT !.mutex = who]
           switched == [held EXCEPT !.pinLevel[held.cfg[relayId].pin] = turnOn, !.cfg[relayId].isOn = turnOn, !.cfg[relayId].lastTrigger = trigger]
           done == IF ~turnOn THEN manageDependentRelays(switched, who, relayId, turnOn) ELSE switched
       IN [done EXCEPT !.mutex = "none"]

\* physicallyControlRelay: the state it leaves (its bool result is ignored by
\* every caller)
physicallyControlRelay(st, who, relayId, turnOn, trigger) ==
  IF relayId < 1 \/ relayId > 8 THEN st
  ELSE IF ~xSemaphoreTake(st.mutex) THEN st
  ELSE LET held == [st EXCEPT !.mutex = who]
           currentlyOn == held.cfg[relayId].isOn
           switched == [held EXCEPT !.pinLevel[held.cfg[relayId].pin] = turnOn, !.cfg[relayId].isOn = turnOn, !.cfg[relayId].lastTrigger = trigger]
           done == IF currentlyOn # turnOn
                   THEN (IF ~turnOn THEN manageDependentRelays(switched, who, relayId, turnOn) ELSE switched)
                   ELSE held
       IN [done EXCEPT !.mutex = "none"]

\* the result of physicallyControlRelay
physicallyControlRelayOk(st, relayId) == relayId >= 1 /\ relayId <= 8 /\ xSemaphoreTake(st.mutex)

\* uint32_t overrideDurationMs = _overrideDurationMinutes * 60 * 1000;
\* overrideUntil = millis() + overrideDurationMs   (unsigned, modulo 2^width)
overrideUntilAt(now, overrideDurationMinutes) == (now + ((overrideDurationMinutes * 60 * 1000) % ClockMod)) % ClockMod

\* clearOverride with the expiry left as it was
clearOverrideKeepsExpiry(st, relayId) == st

\* the AUTO branch of setRelayState: "Clear override, return to automatic control"
clearOverride(st, relayId) == [st EXCEPT !.cfg[relayId].overrideUntil = 0]

\* setRelayState: [st, ok]
setRelayState(st, who, relayId, state, now, overrideDurationMinutes) ==
  IF relayId < 1 \/ relayId > 8 THEN [st |-> st, ok |-> FALSE]
  ELSE IF ~xSemaphoreTake(st.mutex) THEN [st |-> st, ok |-> FALSE]
  ELSE LET held == [st EXCEPT !.mutex = who, !.cfg[relayId].state = state]
           done == IF state # AUTO
                   THEN LET stamped == [held EXCEPT !.cfg[relayId].overrideUntil = overrideUntilAt(now, overrideDurationMinutes)]
                            turnOn == (state = ON)
                            dependsOnRelay == stamped.cfg[relayId].dependsOnRelay
                            found == [stamped EXCEPT !.cfg = subscript(stamped.cfg, dependsOnRelay)]
                            s1 == IF turnOn /\ stamped.cfg[relayId].hasDependency
                                  THEN (IF ~found.cfg[dependsOnRelay].isOn
                                        THEN physicallyControlRelay(found, who, dependsOnRelay, TRUE, DEPENDENT)
                                        ELSE found)
                                  ELSE stamped
                        IN physicallyControlRelay(s1, who, relayId, turnOn, MANUAL)
                   ELSE clearOverride(held, relayId)
       IN [st |-> [done EXCEPT !.mutex = "none"], ok |-> TRUE]

\* getRelayState: [st, state]
getRelayState(st, who, relayId, now) ==
  IF relayId < 1 \/ relayId > 8 THEN [st |-> st, state |-> OFF]
  ELSE IF ~xSemaphoreTake(st.mutex) THEN [st |-> st, state |-> OFF]
  ELSE LET c == st.cfg[relayId]
       IN IF c.state # AUTO /\ c.overrideUntil > 0 /\ now > c.overrideUntil
          THEN [st |-> [st EXCEPT !.cfg[relayId].state = AUTO, !.cfg[relayId].overrideUntil = 0], state |-> AUTO]
          ELSE [st |-> st, state |-> c.state]

\* the std::vector getAllRelayConfigs returns: the records in key order, or
\* nothing when the take fails
getAllRelayConfigs(st) ==
  LET keys == DOMAIN st.cfg
      key(i) == CHOOSE k \in keys : Cardinality({j \in keys : j < k}) = i - 1
  IN IF xSemaphoreTake(st.mutex) THEN [i \in 1..Cardinality(keys) |-> st.cfg[key(i)]] ELSE <<>>

\* isRelayOn
isRelayOn(st, relayId) == IF relayId < 1 \/ relayId > 8 THEN FALSE ELSE IF xSemaphoreTake(st.mutex) THEN st.cfg[relayId].isOn ELSE FALSE

\* setRelayDependency without the validation of its target
setRelayDependencyAnyTarget(st, relayId, hasDependency, dependsOnRelay) ==
  IF relayId < 1 \/ relayId > 8 THEN [st |-> st, ok |-> FALSE]
  ELSE IF ~xSemaphoreTake(st.mutex) THEN [st |-> st, ok |-> FALSE]
  ELSE LET written == [st EXCEPT !.cfg[relayId].hasDependency = hasDependency, !.cfg[relayId].dependsOnRelay = dependsOnRelay]
       IN [st |-> IF hasDependency THEN [written EXCEPT !.cfg = subscript(written.cfg, dependsOnRelay)] ELSE written, ok |-> TRUE]

\* setRelayDependency: [st, ok].  Its log line reads the name of
\* _relayConfigs[dependsOnRelay] when hasDependency is set.
setRelayDependency(st, relayId, hasDependency, dependsOnRelay) ==
  IF relayId < 1 \/ relayId > 8 THEN [st |-> st, ok |-> FALSE]
  ELSE IF hasDependency /\ (dependsOnRelay < 1 \/ dependsOnRelay > 8 \/ dependsOnRelay = relayId) THEN [st |-> st, ok |-> FALSE]
  ELSE IF ~xSemaphoreTake(st.mutex) THEN [st |-> st, ok |-> FALSE]
  ELSE LET written == [st EXCEPT !.cfg[relayId].hasDependency = hasDependency, !.cfg[relayId].dependsOnRelay = dependsOnRelay]
       IN [st |-> IF hasDependency THEN [written EXCEPT !.cfg = subscript(written.cfg, dependsOnRelay)] ELSE written, ok |-> TRUE]

\* setCycleConfig without its validation
setCycleConfigUnchecked(st, cycle, onDurationMinutes, intervalMinutes) ==
  IF ~xSemaphoreTake(st.mutex) THEN [cycle |-> cycle, ok |-> FALSE]
  ELSE [cycle |-> [onDurationMinutes |-> onDurationMinutes, intervalMinutes |-> intervalMinutes], ok |-> TRUE]

\* setCycleConfig on the cycle configuration `cycle`: [cycle, ok]
setCycleConfig(st, cycle, onDurationMinutes, intervalMinutes) ==
  IF onDurationMinutes >= intervalMinutes THEN [cycle |-> cycle, ok |-> FALSE]
  ELSE IF ~xSemaphoreTake(st.mutex) THEN [cycle |-> cycle, ok |-> FALSE]
  ELSE [cycle |-> [onDurationMinutes |-> onDurationMinutes, intervalMinutes |-> intervalMinutes], ok |-> TRUE]

\* setEnvironmentalThresholds validating only the humidity pair
setEnvironmentalThresholdsHumidityOnly(st, thr, humidityLow, humidityHigh, temperatureLow, temperatureHigh, co2Low, co2High) ==
  IF humidityLow >= humidityHigh THEN [thr |-> thr, ok |-> FALSE]
  ELSE IF ~xSemaphoreTake(st.mutex) THEN [thr |-> thr, ok |-> FALSE]
  ELSE [thr |-> [humidityLow |-> humidityLow, humidityHigh |-> humidityHigh, temperatureLow |-> temperatureLow, temperatureHigh |-> temperatureHigh, co2Low |-> co2Low, co2High |-> co2High], ok |-> TRUE]

\* setEnvironmentalThresholds on the thresholds `thr`: [thr, ok]
setEnvironmentalThresholds(st, thr, humidityLow, humidityHigh, temperatureLow, temperatureHigh, co2Low, co2High) ==
  IF humidityLow >= humidityHigh \/ temperatureLow >= temperatureHigh \/ co2Low >= co2High THEN [thr |-> thr, ok |-> FALSE]
  ELSE IF ~xSemaphoreTake(st.mutex) THEN [thr |-> thr, ok |-> FALSE]
  ELSE [thr |-> [humidityLow |-> humidityLow, humidityHigh |-> humidityHigh, temperatureLow |-> temperatureLow, temperatureHigh |-> temperatureHigh, co2Low |-> co2Low, co2High |-> co2High], ok |-> TRUE]

\* setOverrideDuration without the test minutes == 0
setOverrideDurationAcceptsZero(st, current, minutes) ==
  IF ~xSemaphoreTake(st.mutex) THEN [minutes |-> current, ok |-> FALSE]
  ELSE [minutes |-> minutes, ok |-> TRUE]

\* setOverrideDuration on the duration `current`: [minutes, ok]
setOverrideDuration(st, current, minutes) ==
  IF minutes = 0 THEN [minutes |-> current, ok |-> FALSE]
  ELSE IF ~xSemaphoreTake(st.mutex) THEN [minutes |-> current, ok |-> FALSE]
  ELSE [minutes |-> minutes, ok |-> TRUE]

\* setRelayOperatingTime: [st, ok]
setRelayOperatingTime(st, relayId, startHour, startMinute, endHour, endMinute) ==
  IF relayId < 1 \/ relayId > 8 THEN [st |-> st, ok |-> FALSE]
  ELSE IF startHour > 23 \/ startMinute > 59 \/ endHour > 23 \/ endMinute > 59 THEN [st |-> st, ok |-> FALSE]
  ELSE IF ~xSemaphoreTake(st.mutex) THEN [st |-> st, ok |-> FALSE]
  ELSE [st |-> [st EXCEPT !.cfg[relayId].operatingTime = [startHour |-> startHour, startMinute |-> startMinute, endHour |-> endHour, endMinute |-> endMinute]], ok |-> TRUE]

\* setRelayPin without digitalWrite(currentPin, LOW)
setRelayPinOldPinKept(st, relayId, pin) ==
  IF relayId < 1 \/ relayId > 8 THEN [st |-> st, ok |-> FALSE]
  ELSE IF ~xSemaphoreTake(st.mutex) THEN [st |-> st, ok |-> FALSE]
  ELSE LET currentPin == st.cfg[relayId].pin
           levels == [p \in (DOMAIN st.pinLevel) \cup {pin} |-> IF p = pin THEN st.cfg[relayId].isOn ELSE st.pinLevel[p]]
       IN IF currentPin # pin
          THEN [st |-> [st EXCEPT !.pinLevel = levels, !.cfg[relayId].pin = pin], ok |-> TRUE]
          ELSE [st |-> st, ok |-> TRUE]

\* setRelayPin: [st, ok].  The old pin is driven low, the new pin is made an
\* output and driven to the relay's isOn.
setRelayPin(st, relayId, pin) ==
  IF relayId < 1 \/ relayId > 8 THEN [st |-> st, ok |-> FALSE]
  ELSE IF ~xSemaphoreTake(st.mutex) THEN [st |-> st, ok |-> FALSE]
  ELSE LET currentPin == st.cfg[relayId].pin
           levels == [p \in (DOMAIN st.pinLevel) \cup {pin} |-> IF p = pin THEN st.cfg[relayId].isOn ELSE IF p = currentPin THEN FALSE ELSE st.pinLevel[p]]
       IN IF currentPin # pin
          THEN [st |-> [st EXCEPT !.pinLevel = levels, !.cfg[relayId].pin = pin], ok |-> TRUE]
          ELSE [st |-> st, ok |-> TRUE]

-----------------------------------------------------------------------------
(* The control loop: relayControlTask *)

\* a reading the sensor collaborator reports as not valid
NoReading == [valid |-> FALSE, temperature |-> 0, humidity |-> 0, co2 |-> 0]

Reading(t, h, c) == [valid |-> TRUE, temperature |-> t, humidity |-> h, co2 |-> c]

\* what one iteration of the loop samples before it visits the relays: the local
\* time and the three readings (upperDht, lowerDht, scd)
TickInput(hour, minute, upperDht, lowerDht, scd) == [hour |-> hour, minute |-> minute, upperDht |-> upperDht, lowerDht |-> lowerDht, scd |-> scd]

\* 02:00 (cycle minute 0, the UV light's share of the cycle) with no valid
\* reading
ColdStartInput == TickInput(2, 0, NoReading, NoReading, NoReading)

\* the tick input of Spec: 02:30 (cycle minute 30, the grow light's share of
\* the cycle) with all sensors valid, humidity and temperature in their dead
\* bands and CO2 above co2High
TickInputs == {TickInput(2, 30, Reading(22, 60, 0), Reading(22, 70, 0), Reading(22, 65, DEFAULT_CO2_HIGH_THRESHOLD + 1))}

NoTickInput == TickInput(0, 0, NoReading, NoReading, NoReading)

\* getSensorReadings' result: some reading is valid
hasReadings(inp) == inp.upperDht.valid \/ inp.lowerDht.valid \/ inp.scd.valid

validSensors(inp) == IF hasReadings(inp) THEN (IF inp.upperDht.valid THEN 1 ELSE 0) + (IF inp.lowerDht.valid THEN 1 ELSE 0) + (IF inp.scd.valid THEN 1 ELSE 0) ELSE 0

sumTemperature(inp) == (IF inp.upperDht.valid THEN inp.upperDht.temperature ELSE 0) + (IF inp.lowerDht.valid THEN inp.lowerDht.temperature ELSE 0) + (IF inp.scd.valid THEN inp.scd.temperature ELSE 0)

sumHumidity(inp) == (IF inp.upperDht.valid THEN inp.upperDht.humidity ELSE 0) + (IF inp.lowerDht.valid THEN inp.lowerDht.humidity ELSE 0) + (IF inp.scd.valid THEN inp.scd.humidity ELSE 0)

\* avg < threshold and avg >= threshold for avg = sum / n, n > 0, without
\* dividing
avgBelow(sum, n, threshold) == sum < threshold * n

avgAtLeast(sum, n, threshold) == sum >= threshold * n

currentMinuteOfDay(inp) == inp.hour * 60 + inp.minute

cycleMinutes(inp, cycle) == currentMinuteOfDay(inp) % cycle.intervalMinutes

\* isInOperatingTime
isInOperatingTime(st, relayId, inp) == IF relayId < 1 \/ relayId > 8 THEN FALSE ELSE isInRange(st.cfg[relayId].operatingTime, inp.hour, inp.minute)

\* a verdict of the switch in relayControlTask: whether physicallyControlRelay
\* is called at all, whether the branch first switches the dependency on,
\* and the call's arguments
Verdict(call, ensureDep, turnOn, trigger) == [call |-> call, ensureDep |-> ensureDep, turnOn |-> turnOn, trigger |-> trigger]

NoCall == Verdict(FALSE, FALSE, FALSE, SCHEDULE)

\* case 2: UV light
case2(st, inOperatingTime, inp, cycle) == IF inOperatingTime THEN Verdict(TRUE, TRUE, cycleMinutes(inp, cycle) < cycle.onDurationMinutes, SCHEDULE) ELSE Verdict(TRUE, FALSE, FALSE, SCHEDULE)

\* case 3: grow light
case3(st, inOperatingTime, inp, cycle) == IF inOperatingTime THEN Verdict(TRUE, FALSE, cycleMinutes(inp, cycle) >= cycle.onDurationMinutes, SCHEDULE) ELSE Verdict(TRUE, FALSE, FALSE, SCHEDULE)

\* case 4 with "Run together with humidifier (Relay 5)" ahead of the window test
case4HumidifierFirst(st, inOperatingTime, inp, cycle, thr) ==
  IF inOperatingTime \/ st.cfg[5].isOn
  THEN LET shouldBeOn == \/ cycleMinutes(inp, cycle) < cycle.onDurationMinutes
                         \/ (inp.scd.valid /\ inp.scd.co2 < thr.co2Low)
                         \/ st.cfg[5].isOn
       IN Verdict(TRUE, TRUE, shouldBeOn, SCHEDULE)
  ELSE Verdict(TRUE, FALSE, FALSE, SCHEDULE)

\* case 4: tub fans
case4(st, inOperatingTime, inp, cycle, thr) ==
  IF inOperatingTime
  THEN LET shouldBeOn == \/ cycleMinutes(inp, cycle) < cycle.onDurationMinutes
                         \/ (inp.scd.valid /\ inp.scd.co2 < thr.co2Low)
                         \/ st.cfg[5].isOn
       IN Verdict(TRUE, TRUE, shouldBeOn, SCHEDULE)
  ELSE Verdict(TRUE, FALSE, FALSE, SCHEDULE)

\* case 5 without "Run together with IN/OUT Fans (Relay 7)"
case5WithoutFans(st, inOperatingTime, inp, thr) ==
  IF inOperatingTime /\ validSensors(inp) > 0
  THEN LET byHumidity == IF avgBelow(sumHumidity(inp), validSensors(inp), thr.humidityLow) THEN TRUE
                         ELSE IF avgAtLeast(sumHumidity(inp), validSensors(inp), thr.humidityHigh) THEN FALSE
                         ELSE st.cfg[5].isOn
       IN Verdict(TRUE, TRUE, byHumidity, ENVIRONMENTAL)
  ELSE Verdict(TRUE, FALSE, FALSE, SCHEDULE)

\* case 5: humidifier
case5(st, inOperatingTime, inp, thr) ==
  IF inOperatingTime /\ validSensors(inp) > 0
  THEN LET byHumidity == IF avgBelow(sumHumidity(inp), validSensors(inp), thr.humidityLow) THEN TRUE
                         ELSE IF avgAtLeast(sumHumidity(inp), validSensors(inp), thr.humidityHigh) THEN FALSE
                         ELSE st.cfg[5].isOn
           shouldBeOn == byHumidity \/ st.cfg[7].isOn
       IN Verdict(TRUE, TRUE, shouldBeOn, ENVIRONMENTAL)
  ELSE Verdict(TRUE, FALSE, FALSE, SCHEDULE)

\* case 6: heater
case6(st, inp, thr) ==
  IF validSensors(inp) > 0
  THEN LET shouldBeOn == IF avgBelow(sumTemperature(inp), validSensors(inp), thr.temperatureLow) THEN TRUE
                         ELSE IF avgAtLeast(sumTemperature(inp), validSensors(inp), thr.temperatureHigh) THEN FALSE
                         ELSE st.cfg[6].isOn
       IN Verdict(TRUE, FALSE, shouldBeOn, ENVIRONMENTAL)
  ELSE NoCall

\* case 7 without the CO2 > co2High branch
case7WithoutSpike(st, inOperatingTime, inp, cycle, thr) ==
  IF inOperatingTime
  THEN LET byCycle == cycleMinutes(inp, cycle) < cycle.onDurationMinutes
           shouldBeOn == IF inp.scd.valid
                         THEN (IF inp.scd.co2 < thr.co2Low /\ byCycle THEN FALSE ELSE byCycle)
                         ELSE byCycle
       IN Verdict(TRUE, TRUE, shouldBeOn, ENVIRONMENTAL)
  ELSE Verdict(TRUE, FALSE, FALSE, SCHEDULE)

\* case 7: in/out fans
case7(st, inOperatingTime, inp, cycle, thr) ==
  IF inOperatingTime
  THEN LET byCycle == cycleMinutes(inp, cycle) < cycle.onDurationMinutes
           shouldBeOn == IF inp.scd.valid
                         THEN (IF inp.scd.co2 > thr.co2High THEN TRUE
                               ELSE IF inp.scd.co2 < thr.co2Low /\ byCycle THEN FALSE
                               ELSE byCycle)
                         ELSE byCycle
       IN Verdict(TRUE, TRUE, shouldBeOn, ENVIRONMENTAL)
  ELSE Verdict(TRUE, FALSE, FALSE, SCHEDULE)

\* the switch (relayId) of relayControlTask
verdict(st, relayId, inOperatingTime, inp, cycle, thr) ==
  CASE relayId = 2 -> case2(st, inOperatingTime, inp, cycle)
    [] relayId = 3 -> case3(st, inOperatingTime, inp, cycle)
    [] relayId = 4 -> case4(st, inOperatingTime, inp, cycle, thr)
    [] relayId = 5 -> case5(st, inOperatingTime, inp, thr)
    [] relayId = 6 -> case6(st, inp, thr)
    [] relayId = 7 -> case7(st, inOperatingTime, inp, cycle, thr)
    [] OTHER -> NoCall

\* applyVerdict switching the dependency on under the relay's own trigger
applyVerdictOwnTrigger(st, who, relayId, inOperatingTime, inp, cycle, thr) ==
  LET v == verdict(st, relayId, inOperatingTime, inp, cycle, thr)
      config == st.cfg[relayId]
      found == [st EXCEPT !.cfg = subscript(st.cfg, config.dependsOnRelay)]
      s1 == IF v.call /\ v.turnOn /\ v.ensureDep /\ config.hasDependency
            THEN (IF ~found.cfg[config.dependsOnRelay].isOn
                  THEN physicallyControlRelay(found, who, config.dependsOnRelay, TRUE, v.trigger)
                  ELSE found)
            ELSE st
  IN IF v.call THEN physicallyControlRelay(s1, who, relayId, v.turnOn, v.trigger) ELSE st

\* the body of one case after the mutex was given back (line 837): the calls
\* it makes, each taking the mutex on its own
applyVerdict(st, who, relayId, inOperatingTime, inp, cycle, thr) ==
  LET v == verdict(st, relayId, inOperatingTime, inp, cycle, thr)
      config == st.cfg[relayId]
      found == [st EXCEPT !.cfg = subscript(st.cfg, config.dependsOnRelay)]
      s1 == IF v.call /\ v.turnOn /\ v.ensureDep /\ config.hasDependency
            THEN (IF ~found.cfg[config.dependsOnRelay].isOn
                  THEN physicallyControlRelay(found, who, config.dependsOnRelay, TRUE, DEPENDENT)
                  ELSE found)
            ELSE st
  IN IF v.call THEN physicallyControlRelay(s1, who, relayId, v.turnOn, v.trigger) ELSE st

\* checkRelay without the xSemaphoreGive before the `continue` of a relay that
\* is not in AUTO (line 826)
checkRelayKeepsMutex(st, who, relayId, got, now, inp) ==
  IF ~got THEN [st |-> st, evaluate |-> FALSE, inOperatingTime |-> FALSE]
  ELSE LET held == [st EXCEPT !.mutex = who]
           g == getRelayState(held, who, relayId, now)
           given == [g.st EXCEPT !.mutex = "none"]
       IN IF g.state # AUTO
          THEN [st |-> g.st, evaluate |-> FALSE, inOperatingTime |-> FALSE]
          ELSE [st |-> given, evaluate |-> TRUE, inOperatingTime |-> isInOperatingTime(g.st, relayId, inp)]

\* the first half of the loop body for one relay (lines 815-837), entered with
\* the outer take's result `got`: [st, evaluate, inOperatingTime].  The call of
\* getRelayState is made while the task holds the mutex.
checkRelay(st, who, relayId, got, now, inp) ==
  IF ~got THEN [st |-> st, evaluate |-> FALSE, inOperatingTime |-> FALSE]
  ELSE LET held == [st EXCEPT !.mutex = who]
           g == getRelayState(held, who, relayId, now)
           given == [g.st EXCEPT !.mutex = "none"]
       IN IF g.state # AUTO
          THEN [st |-> given, evaluate |-> FALSE, inOperatingTime |-> FALSE]
          ELSE [st |-> given, evaluate |-> TRUE, inOperatingTime |-> isInOperatingTime(g.st, relayId, inp)]

-----------------------------------------------------------------------------
(* State *)

VARIABLES relayConfigs, pinLevel, mutex, cycleConfig, thresholds, overrideDurationMinutes, millis, task, ret, before

vars == <<relayConfigs, pinLevel, mutex, cycleConfig, thresholds, overrideDurationMinutes, millis, task, ret, before>>

\* `before` is a history variable of the specification SpecSwitch: the relay
\* table its one call started from.

\* the manager state the operators work on
St == [cfg |-> relayConfigs, pinLevel |-> pinLevel, mutex |-> mutex]

\* what the last step returned to its caller, when it was a call of the
\* transport layer: the operation, its relayId, the mode passed or returned,
\* its success (for a query: that it got the mutex), and the relay's stored
\* mode before the call
Ret(op, id, state, ok, was) == [op |-> op, id |-> id, state |-> state, ok |-> ok, was |-> was]

NoRet == Ret("", 0, "", FALSE, "")

\* the same for a setter whose arguments are the tuple `args`
RetArgs(op, id, args, ok) == [op |-> op, id |-> id, state |-> "", ok |-> ok, was |-> "", args |-> args]

TaskAsleep == [pc |-> "sleep", relayId |-> 1, inOperatingTime |-> FALSE, inp |-> NoTickInput]

\* after begin() and initRelays()
Init ==
  /\ relayConfigs = initRelays
  /\ pinLevel = [p \in Pins |-> FALSE]
  /\ mutex = "none"
  /\ cycleConfig = CycleConfig
  /\ thresholds = EnvironmentalThresholds
  /\ overrideDurationMinutes = DEFAULT_USER_OVERRIDE_TIME_MIN
  /\ millis = 0
  /\ task = TaskAsleep
  /\ ret = NoRet
  /\ before = <<>>

\* A call of the transport layer finds the mutex taken for its whole 1000 ms
\* only while the control loop is inside a tick: the loop holds the mutex for
\* the second its nested take needs to time out, relay after relay.
Contended == task.pc # "sleep"

\* the relay the calls made under contention are for in Spec
BusyId == 2

\* the manager state a call made with or without contention starts from
Seen(busy) == IF busy THEN [St EXCEPT !.mutex = "task"] ELSE St

Store(st, busy) ==
  /\ relayConfigs' = st.cfg
  /\ pinLevel' = st.pinLevel
  /\ mutex' = IF busy THEN mutex ELSE st.mutex

stored(relayId) == IF relayId \in RelayIds THEN relayConfigs[relayId].state ELSE ""

\* setRelayState called for one of `ids`
SetRelayStateFor(ids) ==
  \E relayId \in ids, state \in RelayState, busy \in BOOLEAN :
    /\ busy => Contended /\ relayId = BusyId
    /\ LET r == setRelayState(Seen(busy), "api", relayId, state, millis, overrideDurationMinutes)
       IN /\ Store(r.st, busy)
          /\ ret' = Ret("setRelayState", relayId, state, r.ok, stored(relayId))
    /\ UNCHANGED <<cycleConfig, thresholds, overrideDurationMinutes, millis, task, before>>

SetRelayState == SetRelayStateFor(CmdIds \cup InvalidIds)

GetRelayState ==
  \E relayId \in CmdIds, busy \in BOOLEAN :
    /\ busy => Contended /\ relayId = BusyId
    /\ LET r == getRelayState(Seen(busy), "api", relayId, millis)
       IN /\ Store(r.st, busy)
          /\ ret' = Ret("getRelayState", relayId, r.state, ~busy, stored(relayId))
    /\ UNCHANGED <<cycleConfig, thresholds, overrideDurationMinutes, millis, task, before>>

GetAllRelayConfigs ==
  \E busy \in BOOLEAN :
    /\ busy => Contended
    /\ ret' = Ret("getAllRelayConfigs", 0, "", getAllRelayConfigs(Seen(busy)) # <<>>, "")
    /\ UNCHANGED <<relayConfigs, pinLevel, mutex, cycleConfig, thresholds, overrideDurationMinutes, millis, task, before>>

IsRelayOn ==
  \E busy \in BOOLEAN :
    /\ busy => Contended
    /\ ret' = Ret("isRelayOn", BusyId, IF isRelayOn(Seen(busy), BusyId) THEN ON ELSE OFF, ~busy, "")
    /\ UNCHANGED <<relayConfigs, pinLevel, mutex, cycleConfig, thresholds, overrideDurationMinutes, millis, task, before>>

\* setRelayDependency called with one of `edits`
SetRelayDependencyFor(edits) ==
  \E e \in edits, busy \in BOOLEAN :
    /\ busy => Contended /\ e = <<BusyId, TRUE, 1>>
    /\ LET r == setRelayDependency(Seen(busy), e[1], e[2], e[3])
       IN /\ Store(r.st, busy)
          /\ ret' = RetArgs("setRelayDependency", e[1], e, r.ok)
    /\ UNCHANGED <<cycleConfig, thresholds, overrideDurationMinutes, millis, task, before>>

SetRelayDependency == SetRelayDependencyFor(DepEdits)

\* millis() advances
AdvanceClock ==
  /\ millis + AdvanceMs <= MaxMillis
  /\ millis' = (millis + AdvanceMs) % ClockMod
  /\ ret' = NoRet
  /\ UNCHANGED <<relayConfigs, pinLevel, mutex, cycleConfig, thresholds, overrideDurationMinutes, task, before>>

\* the loop's position after it is done with relayId
nextRelay(relayId) == IF relayId < NumRelays THEN [pc |-> "check", relayId |-> relayId + 1, inOperatingTime |-> FALSE, inp |-> task.inp] ELSE TaskAsleep

\* the take at line 815 can time out only against a forced setRelayState that
\* is still waiting out its own nested takes
OuterTakeResults == IF ret.op = "setRelayState" /\ ret.ok /\ ret.state # AUTO THEN BOOLEAN ELSE {TRUE}

\* one step of relayControlTask: it wakes up and samples time and sensors (one
\* of `inputs`), or checks the next relay under the mutex, or applies that
\* relay's verdict
Tick(inputs) ==
  /\ CASE task.pc = "sleep" ->
            \E inp \in inputs :
              /\ task' = [pc |-> "check", relayId |-> 1, inOperatingTime |-> FALSE, inp |-> inp]
              /\ UNCHANGED <<relayConfigs, pinLevel, mutex>>
       [] task.pc = "check" ->
            \E got \in OuterTakeResults :
              LET c == checkRelay(St, "task", task.relayId, got, millis, task.inp)
              IN /\ Store(c.st, FALSE)
                 /\ task' = IF c.evaluate
                            THEN [task EXCEPT !.pc = "apply", !.inOperatingTime = c.inOperatingTime]
                            ELSE nextRelay(task.relayId)
       [] OTHER ->
            /\ Store(applyVerdict(St, "task", task.relayId, task.inOperatingTime, task.inp, cycleConfig, thresholds), FALSE)
            /\ task' = nextRelay(task.relayId)
  /\ ret' = NoRet
  /\ UNCHANGED <<cycleConfig, thresholds, overrideDurationMinutes, millis, before>>

RelayControlTask == Tick(TickInputs)

Next == SetRelayState \/ GetRelayState \/ GetAllRelayConfigs \/ IsRelayOn \/ SetRelayDependency \/ AdvanceClock \/ RelayControlTask

Spec == Init /\ [][Next]_vars

-----------------------------------------------------------------------------
(* Specification SpecConfig: the setters of the configuration, valid and    *)
(* invalid calls, from the compiled-in defaults, next to the control loop   *)
(* running its cold-start tick.                                             *)

\* setCycleConfig(onDurationMinutes, intervalMinutes) calls
CycleEdits == {<<5, 60>>, <<0, 1>>, <<60, 60>>, <<30, 10>>, <<0, 0>>}

\* setEnvironmentalThresholds calls: two valid ones, and one with each pair
\* inverted or equal
ThresholdEdits == {<<50, 85, 20, 24, 1000, 1600>>, <<40, 80, 18, 26, 800, 1500>>, <<90, 50, 20, 24, 1000, 1600>>, <<50, 85, 24, 24, 1000, 1600>>, <<50, 85, 20, 24, 1600, 1000>>}

\* setOverrideDuration(minutes) calls
DurationEdits == {0, 10}

\* setRelayOperatingTime(relayId, startHour, startMinute, endHour, endMinute) calls
TimeEdits == {<<3, 8, 0, 20, 0>>, <<3, 0, 0, 23, 59>>, <<9, 8, 0, 20, 0>>, <<0, 8, 0, 20, 0>>, <<3, 24, 0, 20, 0>>, <<3, 8, 0, 20, 60>>}

\* setRelayPin(relayId, pin) calls
PinEdits == {<<6, 23>>, <<6, 27>>, <<9, 27>>, <<0, 27>>}

\* setRelayDependency calls of SpecConfig
ConfigDepEdits == {<<2, FALSE, 0>>, <<2, TRUE, 1>>, <<2, TRUE, 9>>, <<2, TRUE, 0>>, <<2, TRUE, 2>>, <<9, FALSE, 0>>, <<0, TRUE, 1>>}

SetCycleConfig ==
  \E e \in CycleEdits, busy \in BOOLEAN :
    /\ busy => Contended
    /\ LET r == setCycleConfig(Seen(busy), cycleConfig, e[1], e[2])
       IN /\ cycleConfig' = r.cycle
          /\ ret' = RetArgs("setCycleConfig", 0, e, r.ok)
    /\ UNCHANGED <<relayConfigs, pinLevel, mutex, thresholds, overrideDurationMinutes, millis, task, before>>

SetEnvironmentalThresholds ==
  \E e \in ThresholdEdits, busy \in BOOLEAN :
    /\ busy => Contended
    /\ LET r == setEnvironmentalThresholds(Seen(busy), thresholds, e[1], e[2], e[3], e[4], e[5], e[6])
       IN /\ thresholds' = r.thr
          /\ ret' = RetArgs("setEnvironmentalThresholds", 0, e, r.ok)
    /\ UNCHANGED <<relayConfigs, pinLevel, mutex, cycleConfig, overrideDurationMinutes, millis, task, before>>

SetOverrideDuration ==
  \E minutes \in DurationEdits, busy \in BOOLEAN :
    /\ busy => Contended
    /\ LET r == setOverrideDuration(Seen(busy), overrideDurationMinutes, minutes)
       IN /\ overrideDurationMinutes' = r.minutes
          /\ ret' = RetArgs("setOverrideDuration", 0, <<minutes>>, r.ok)
    /\ UNCHANGED <<relayConfigs, pinLevel, mutex, cycleConfig, thresholds, millis, task, before>>

\* setRelayOperatingTime called with one of `edits`
SetRelayOperatingTimeFor(edits) ==
  \E e \in edits, busy \in BOOLEAN :
    /\ busy => Contended
    /\ LET r == setRelayOperatingTime(Seen(busy), e[1], e[2], e[3], e[4], e[5])
       IN /\ Store(r.st, busy)
          /\ ret' = RetArgs("setRelayOperatingTime", e[1], e, r.ok)
    /\ UNCHANGED <<cycleConfig, thresholds, overrideDurationMinutes, millis, task, before>>

SetRelayOperatingTime == SetRelayOperatingTimeFor(TimeEdits)

SetRelayPin ==
  \E e \in PinEdits, busy \in BOOLEAN :
    /\ busy => Contended
    /\ LET r == setRelayPin(Seen(busy), e[1], e[2])
       IN /\ Store(r.st, busy)
          /\ ret' = RetArgs("setRelayPin", e[1], e, r.ok)
    /\ UNCHANGED <<cycleConfig, thresholds, overrideDurationMinutes, millis, task, before>>

ConfigSetRelayDependency == SetRelayDependencyFor(ConfigDepEdits)

\* setRelayState called with a relay id outside 1..8
SetRelayStateInvalidId == SetRelayStateFor(InvalidIds)

\* the control loop's tick at 02:00 with no valid reading
ColdStartTick == Tick({ColdStartInput})

NextConfig == SetCycleConfig \/ SetEnvironmentalThresholds \/ SetOverrideDuration \/ SetRelayOperatingTime \/ SetRelayPin \/ ConfigSetRelayDependency \/ SetRelayStateInvalidId \/ ColdStartTick

SpecConfig == Init /\ [][NextConfig]_vars

-----------------------------------------------------------------------------
(* Specification SpecSwitch: physicallyControlRelay as a unit.               *)
(* One call, made as the control loop makes it (the mutex free), on a relay *)
(* table in which relays are on.  The table is a fixture: its dependency    *)
(* graph is one setRelayDependency can build, and every relay that is on    *)
(* has its dependency on.                                                   *)

\* the default dependency graph of initRelays, and the graph in which every
\* other relay depends on the hub
DefaultGraph == [r \in RelayIds |-> [hasDependency |-> initRelays[r].hasDependency, dependsOnRelay |-> initRelays[r].dependsOnRelay]]

StarGraph == [r \in RelayIds |-> IF r = 1 THEN [hasDependency |-> FALSE, dependsOnRelay |-> 0] ELSE [hasDependency |-> TRUE, dependsOnRelay |-> 1]]

SwitchGraphs == {DefaultGraph, StarGraph}

TableOf(graph, onSet) == [r \in RelayIds |-> [initRelays[r] EXCEPT !.hasDependency = graph[r].hasDependency, !.dependsOnRelay = graph[r].dependsOnRelay, !.isOn = (r \in onSet)]]

DependencySafe(cfg) == \A r \in RelayIds : (cfg[r].hasDependency /\ cfg[r].isOn /\ cfg[r].dependsOnRelay \in RelayIds) => cfg[cfg[r].dependsOnRelay].isOn

SwitchTables == {t \in {TableOf(g, s) : g \in SwitchGraphs, s \in SUBSET RelayIds} : DependencySafe(t)}

\* the triggers the control loop passes
SwitchTriggers == {SCHEDULE, ENVIRONMENTAL}

InitSwitch ==
  /\ relayConfigs \in SwitchTables
  /\ pinLevel = [p \in Pins |-> \E r \in RelayIds : relayConfigs[r].pin = p /\ relayConfigs[r].isOn]
  /\ mutex = "none"
  /\ cycleConfig = CycleConfig
  /\ thresholds = EnvironmentalThresholds
  /\ overrideDurationMinutes = DEFAULT_USER_OVERRIDE_TIME_MIN
  /\ millis = 0
  /\ task = TaskAsleep
  /\ ret = NoRet
  /\ before = <<>>

PhysicallyControlRelay ==
  \E relayId \in RelayIds, turnOn \in BOOLEAN, trigger \in SwitchTriggers :
    /\ ret = NoRet
    /\ Store(physicallyControlRelay(St, "task", relayId, turnOn, trigger), FALSE)
    /\ ret' = Ret("physicallyControlRelay", relayId, IF turnOn THEN ON ELSE OFF, physicallyControlRelayOk(St, relayId), "")
    /\ before' = relayConfigs
    /\ UNCHANGED <<cycleConfig, thresholds, overrideDurationMinutes, millis, task>>

NextSwitch == PhysicallyControlRelay

SpecSwitch == InitSwitch /\ [][NextSwitch]_vars

-----------------------------------------------------------------------------
(* Specification SpecPolicy: the policy of one relay as a unit.  One relay's  *)
(* case of the switch in relayControlTask, run as the loop runs it after      *)
(* giving the mutex back (line 837), on a relay table in which relays are on. *)
(* The table is a fixture, as in SpecSwitch.                                  *)

\* an operating window that leaves out the night: 08:00-20:00
DayTimeRange == [startHour |-> 8, startMinute |-> 0, endHour |-> 20, endMinute |-> 0]

PolicyWindows == {DefaultTimeRange, DayTimeRange}

PolicyTables == {[r \in RelayIds |-> [t[r] EXCEPT !.operatingTime = w]] : t \in {TableOf(DefaultGraph, s) : s \in SUBSET RelayIds}, w \in PolicyWindows}

\* the readings (upperDht, lowerDht, scd) of the policy inputs: none valid;
\* humidity and temperature inside their dead bands with CO2 inside and above
\* its band; everything below the low thresholds; everything at or above the
\* high thresholds
PolicySensors == {<<NoReading, NoReading, NoReading>>, <<Reading(22, 60, 0), Reading(22, 70, 0), Reading(22, 65, 1200)>>, <<Reading(22, 60, 0), Reading(22, 70, 0), Reading(22, 65, DEFAULT_CO2_HIGH_THRESHOLD + 1)>>, <<Reading(18, 40, 0), Reading(19, 45, 0), Reading(18, 40, 900)>>, <<Reading(24, 85, 0), Reading(26, 90, 0), Reading(25, 88, DEFAULT_CO2_HIGH_THRESHOLD)>>}

\* 02:00 and 02:30: cycle minutes 0 and 30 of the default cycle
PolicyInputs == {TickInput(2, m, c[1], c[2], c[3]) : m \in {0, 30}, c \in PolicySensors}

InitPolicy ==
  /\ relayConfigs \in {t \in PolicyTables : DependencySafe(t)}
  /\ pinLevel = [p \in Pins |-> \E r \in RelayIds : relayConfigs[r].pin = p /\ relayConfigs[r].isOn]
  /\ mutex = "none"
  /\ cycleConfig = CycleConfig
  /\ thresholds = EnvironmentalThresholds
  /\ overrideDurationMinutes = DEFAULT_USER_OVERRIDE_TIME_MIN
  /\ millis = 0
  /\ task = TaskAsleep
  /\ ret = NoRet
  /\ before = <<>>

\* the loop body for one relay in mode AUTO, from the window test at line 834 on
ApplyVerdict ==
  \E relayId \in RelayIds, inp \in PolicyInputs :
    /\ ret = NoRet
    /\ relayConfigs[relayId].state = AUTO
    /\ Store(applyVerdict(St, "task", relayId, isInOperatingTime(St, relayId, inp), inp, cycleConfig, thresholds), FALSE)
    /\ ret' = RetArgs("applyVerdict", relayId, inp, TRUE)
    /\ before' = relayConfigs
    /\ UNCHANGED <<cycleConfig, thresholds, overrideDurationMinutes, millis, task>>

NextPolicy == ApplyVerdict

SpecPolicy == InitPolicy /\ [][NextPolicy]_vars

-----------------------------------------------------------------------------
(* Specification SpecPin: setRelayPin as a unit, and the switching that      *)
(* follows it.  One call of setRelayPin with the mutex free on a relay table *)
(* in which relays are on (a fixture, as in SpecSwitch), then calls of       *)
(* physicallyControlRelay as the control loop makes them.                    *)

\* setRelayPin(relayId, pin) calls for the heater (6, on pin 23): a free pin,
\* its current pin, the pin of the in/out fans (7), and two invalid relay ids
SwitchPinEdits == {<<6, 27>>, <<6, DEFAULT_RELAY6_PIN>>, <<6, DEFAULT_RELAY7_PIN>>, <<9, 27>>, <<0, 27>>}

\* the relays switched after the pin was set
SwitchedAfterPin == {6, 7}

InitPin ==
  /\ relayConfigs \in {t \in {TableOf(DefaultGraph, s) : s \in SUBSET RelayIds} : DependencySafe(t)}
  /\ pinLevel = [p \in Pins |-> \E r \in RelayIds : relayConfigs[r].pin = p /\ relayConfigs[r].isOn]
  /\ mutex = "none"
  /\ cycleConfig = CycleConfig
  /\ thresholds = EnvironmentalThresholds
  /\ overrideDurationMinutes = DEFAULT_USER_OVERRIDE_TIME_MIN
  /\ millis = 0
  /\ task = TaskAsleep
  /\ ret = NoRet
  /\ before = <<>>

PinSetRelayPin ==
  \E e \in SwitchPinEdits :
    /\ ret = NoRet
    /\ LET r == setRelayPin(St, e[1], e[2])
       IN /\ Store(r.st, FALSE)
          /\ ret' = RetArgs("setRelayPin", e[1], e, r.ok)
    /\ before' = relayConfigs
    /\ UNCHANGED <<cycleConfig, thresholds, overrideDurationMinutes, millis, task>>

PinPhysicallyControlRelay ==
  \E relayId \in SwitchedAfterPin, turnOn \in BOOLEAN, trigger \in SwitchTriggers :
    /\ ret.op = "setRelayPin"
    /\ Store(physicallyControlRelay(St, "task", relayId, turnOn, trigger), FALSE)
    /\ ret' = Ret("physicallyControlRelay", relayId, IF turnOn THEN ON ELSE OFF, physicallyControlRelayOk(St, relayId), "")
    /\ UNCHANGED <<cycleConfig, thresholds, overrideDurationMinutes, millis, task, before>>

NextPin == PinSetRelayPin \/ PinPhysicallyControlRelay

SpecPin == InitPin /\ [][NextPin]_vars

-----------------------------------------------------------------------------
(* Specification SpecTick: the control loop of the running program on the    *)
(* samples of time and sensors of PolicyInputs, next to calls that set the   *)
(* operating windows of the humidifier (5) and the heater (6).               *)

\* setRelayOperatingTime calls of SpecTick: 08:00-20:00 and back to 00:00-23:59
TickTimeEdits == {<<5, 8, 0, 20, 0>>, <<6, 8, 0, 20, 0>>, <<6, 0, 0, 23, 59>>}

TickSetRelayOperatingTime == SetRelayOperatingTimeFor(TickTimeEdits)

PolicyTick == Tick(PolicyInputs)

NextTick == TickSetRelayOperatingTime \/ PolicyTick

SpecTick == Init /\ [][NextTick]_vars

-----------------------------------------------------------------------------
(* Specification SpecSweep: the switch statements of whole ticks.  From the   *)
(* table initRelays leaves, with every relay in mode AUTO, the loop bodies of *)
(* relays 1..8 run in ascending order from line 829 on, that is, as they run  *)
(* when the call at line 823 has returned the stored mode AUTO; tick follows  *)
(* tick, each with its own sample of time and sensors.                        *)

SweepInputs == PolicyInputs

InitSweep ==
  /\ relayConfigs \in {[r \in RelayIds |-> [initRelays[r] EXCEPT !.operatingTime = w]] : w \in PolicyWindows}
  /\ pinLevel = [p \in Pins |-> FALSE]
  /\ mutex = "none"
  /\ cycleConfig = CycleConfig
  /\ thresholds = EnvironmentalThresholds
  /\ overrideDurationMinutes = DEFAULT_USER_OVERRIDE_TIME_MIN
  /\ millis = 0
  /\ task = TaskAsleep
  /\ ret = NoRet
  /\ before = relayConfigs

\* the loop wakes up and samples time and sensors (lines 769-810); `before`
\* keeps the table the tick starts from
SweepStart ==
  \E inp \in SweepInputs :
    /\ task.pc = "sleep"
    /\ task' = [pc |-> "apply", relayId |-> 1, inOperatingTime |-> FALSE, inp |-> inp]
    /\ before' = relayConfigs
    /\ ret' = NoRet
    /\ UNCHANGED <<relayConfigs, pinLevel, mutex, cycleConfig, thresholds, overrideDurationMinutes, millis>>

\* the loop body of the next relay; after relay 8 the loop goes to sleep and
\* `ret` keeps the sample the tick ran with
SweepStep ==
  /\ task.pc = "apply"
  /\ Store(applyVerdict(St, "task", task.relayId, isInOperatingTime(St, task.relayId, task.inp), task.inp, cycleConfig, thresholds), FALSE)
  /\ task' = IF task.relayId < NumRelays THEN [task EXCEPT !.relayId = task.relayId + 1] ELSE TaskAsleep
  /\ ret' = IF task.relayId < NumRelays THEN NoRet ELSE RetArgs("relayControlTask", 0, task.inp, TRUE)
  /\ UNCHANGED <<cycleConfig, thresholds, overrideDurationMinutes, millis, before>>

\* setRelayDependency calls made between two ticks: a dependency for the
\* grow light (3), whose case does not look at dependencies, and the tub fans
\* (4) moved from the hub to the UV light (2), which depends on the hub
SweepDepEdits == {<<3, TRUE, 1>>, <<3, FALSE, 0>>, <<4, TRUE, 2>>, <<4, TRUE, 1>>}

SweepSetRelayDependency == task.pc = "sleep" /\ SetRelayDependencyFor(SweepDepEdits)

NextSweep == SweepStart \/ SweepStep \/ SweepSetRelayDependency

SpecSweep == InitSweep /\ [][NextSweep]_vars

-----------------------------------------------------------------------------
(* Properties *)

\* the mode getRelayState makes of the stored mode at the current time
modeAfterExpiry(relayId) ==
  LET c == relayConfigs[relayId]
  IN IF c.state # AUTO /\ c.overrideUntil > 0 /\ millis > c.overrideUntil THEN AUTO ELSE c.state

Forced(relayId) == relayConfigs[relayId].state # AUTO

Expired(relayId) == Forced(relayId) /\ modeAfterExpiry(relayId) = AUTO

\* the last step was a successful call of setRelayState(ret.id, state)
Commanded(state) == ret.op = "setRelayState" /\ ret.ok /\ ret.state = state

\* the relays whose dependency is the hub
HubDependents(cfg) == {k \in RelayIds \ {1} : cfg[k].hasDependency /\ cfg[k].dependsOnRelay = 1}

\* C1: every relay that has a dependency and is on has its dependency on.
C1_DependencySafety == DependencySafe(relayConfigs)

\* C1: the case C1 is about, a relay with a dependency that is on (no state of
\* Spec satisfies it)
C1_DependentOn == \E r \in RelayIds : relayConfigs[r].hasDependency /\ relayConfigs[r].isOn

\* C2: a control tick that gets the mutex for a relay whose mode is AUTO (after
\* lazy reversion) goes on to evaluate and apply that relay's policy (stated for
\* relays 2..7, whose policy issues a switching call).
C2_AutoRelayEvaluated == [][(task.pc = "check" /\ task.relayId \notin {1, NumRelays} /\ task' # task /\ OuterTakeResults = {TRUE} /\ modeAfterExpiry(task.relayId) = AUTO) => task'.pc = "apply"]_vars

\* C3: when setRelayState(id, ON) has returned success the relay is on, its pin
\* is high and its dependency (if any) is on; when setRelayState(id, OFF) has
\* returned success the relay is off; in both cases the mode is the forced one
\* and the expiry is millis() + overrideDuration.
C3_ForcedStateApplied ==
  \A state \in {ON, OFF} :
    Commanded(state) =>
      LET c == relayConfigs[ret.id]
      IN /\ c.state = state
         /\ c.overrideUntil = overrideUntilAt(millis, overrideDurationMinutes)
         /\ c.isOn = (state = ON)
         /\ pinLevel[c.pin] = (state = ON)
         /\ (state = ON /\ c.hasDependency) => relayConfigs[c.dependsOnRelay].isOn

\* C4: a relay in mode ON is on and a relay in mode OFF is off, in every state.
C4_ForcedModePinsState ==
  \A r \in RelayIds :
    /\ relayConfigs[r].state = ON => relayConfigs[r].isOn
    /\ relayConfigs[r].state = OFF => ~relayConfigs[r].isOn

C7_ReadsRevertExpired ==
  /\ (ret.op = "getRelayState" /\ ret.ok) =>
       /\ ret.state = relayConfigs[ret.id].state
       /\ ~Expired(ret.id)
  /\ (ret.op = "getAllRelayConfigs" /\ ret.ok) =>
       \A i \in 1..Len(getAllRelayConfigs(St)) :
         LET c == getAllRelayConfigs(St)[i]
         IN ~(c.state # AUTO /\ c.overrideUntil > 0 /\ millis > c.overrideUntil)

\* C8: the control tick that gets the mutex for relay 3 after relay 3's override
\* has expired reverts it to AUTO and goes on to evaluate and apply its policy.
C8_ExpiredOverrideReevaluated == [][(task.pc = "check" /\ task.relayId = 3 /\ task' # task /\ OuterTakeResults = {TRUE} /\ Expired(3)) => (relayConfigs'[3].state = AUTO /\ relayConfigs'[3].overrideUntil = 0 /\ task'.pc = "apply")]_vars

\* C9: a successful setRelayState(id, AUTO) leaves the relay in mode AUTO with
\* expiry 0 and changes nothing else: isOn, lastTrigger, mode and expiry of the
\* other relays and all output pins stay as they were.
C9_ReArmOnlyClearsOverride ==
  [][(ret'.op = "setRelayState" /\ ret'.ok /\ ret'.state = AUTO) =>
       /\ relayConfigs' = [relayConfigs EXCEPT ![ret'.id].state = AUTO, ![ret'.id].overrideUntil = 0]
       /\ pinLevel' = pinLevel]_vars

\* C9: a relay with a forced mode has just been re-armed
C9_ForcedRelayReArmed == Commanded(AUTO) /\ ret.was \in {ON, OFF}

\* C10: whoever reads the table never finds a relay in a forced mode whose
\* isOn is not the forced state.
C10_ForcedStateObservedApplied ==
  (ret.op = "getAllRelayConfigs" /\ ret.ok) =>
    \A i \in 1..Len(getAllRelayConfigs(St)) :
      LET c == getAllRelayConfigs(St)[i]
      IN (c.state = ON => c.isOn) /\ (c.state = OFF => ~c.isOn)

\* C11: the control loop gives the mutex back between finding relay 3 in mode
\* AUTO and applying its verdict, so that a manual command can be served in
\* between: the check of an AUTO relay 3 is followed by the apply phase with
\* the mutex free.
C11_GapBeforeApply == [][(task.pc = "check" /\ task.relayId = 3 /\ task' # task /\ OuterTakeResults = {TRUE} /\ relayConfigs[3].state = AUTO) => (task'.pc = "apply" /\ task'.relayId = 3 /\ mutex' = "none")]_vars

\* C11: the control loop is never about to apply a verdict (holds in Spec: the
\* gap of C11 is never entered)
C11_NoVerdictPending == task.pc # "apply"

\* C12: a forced setRelayState in which a take timed out, its own or the one
\* of the physicallyControlRelay it calls, returns failure and leaves the relay
\* table, the pins and the global configuration as they were; one that returns
\* success has switched the relay.
C12_TimeoutAbandonsWholly ==
  [][(ret'.op = "setRelayState" /\ ret'.id \in RelayIds /\ ret'.state # AUTO) =>
       LET nestedOk == physicallyControlRelayOk([St EXCEPT !.mutex = "api"], ret'.id)
       IN /\ (~ret'.ok \/ ~nestedOk) => (~ret'.ok /\ UNCHANGED <<relayConfigs, pinLevel, cycleConfig, thresholds, overrideDurationMinutes>>)
          /\ ret'.ok => relayConfigs'[ret'.id].isOn = (ret'.state = ON)]_vars

\* C13: getRelayState never returns a mode other than the relay's stored mode
\* (after lazy expiry), and isRelayOn never returns a value other than the
\* stored isOn, whether or not the call got the mutex.
C13_QueriesReportStored ==
  /\ ret.op = "getRelayState" => ret.state = modeAfterExpiry(ret.id)
  /\ ret.op = "isRelayOn" => (ret.state = ON) = relayConfigs[ret.id].isOn

\* the last call was a setter called with invalid input: a relay id outside
\* 1..8, a dependency target out of range or the relay itself, onDuration >=
\* interval, or a threshold pair with low >= high
InvalidCall(r) ==
  CASE r.op = "setCycleConfig" -> r.args[1] >= r.args[2]
    [] r.op = "setEnvironmentalThresholds" -> r.args[1] >= r.args[2] \/ r.args[3] >= r.args[4] \/ r.args[5] >= r.args[6]
    [] r.op = "setRelayDependency" -> r.id \notin RelayIds \/ (r.args[2] /\ (r.args[3] \notin RelayIds \/ r.args[3] = r.id))
    [] r.op \in {"setRelayState", "setRelayOperatingTime", "setRelayPin"} -> r.id \notin RelayIds
    [] OTHER -> FALSE

\* C14: a setter called with invalid input returns failure and changes nothing
\* of the relay table, the pins, the cycle configuration, the thresholds and
\* the override duration.
C14_InvalidInputRejected ==
  [][InvalidCall(ret') => (~ret'.ok /\ UNCHANGED <<relayConfigs, pinLevel, cycleConfig, thresholds, overrideDurationMinutes>>)]_vars

\* C14: a setter has rejected invalid input on a configuration that earlier
\* calls had changed
C14_InvalidCallReturned ==
  /\ InvalidCall(ret) /\ ~ret.ok
  /\ cycleConfig # CycleConfig /\ thresholds # EnvironmentalThresholds /\ relayConfigs # initRelays

C16_DependencyDepthOne ==
  \A r \in RelayIds :
    relayConfigs[r].hasDependency =>
      /\ relayConfigs[r].dependsOnRelay \in RelayIds \ {r}
      /\ ~relayConfigs[relayConfigs[r].dependsOnRelay].hasDependency

\* the average humidity of inp lies strictly between humidityLow and humidityHigh
humidityInDeadBand(inp, thr) ==
  /\ validSensors(inp) > 0
  /\ sumHumidity(inp) > thr.humidityLow * validSensors(inp)
  /\ avgBelow(sumHumidity(inp), validSensors(inp), thr.humidityHigh)

\* the policy of relay `id` has just been applied once
Applied(id) == ret.op = "applyVerdict" /\ ret.id = id

TickEnds == task.pc # "sleep" /\ task'.pc = "sleep"

\* C17: at the end of a tick that leaves relays 2 and 3 in mode AUTO, both
\* inside their operating windows, exactly one of the two is on.
C17_OneLightOnAfterTick ==
  [][(/\ TickEnds
      /\ relayConfigs'[2].state = AUTO /\ relayConfigs'[3].state = AUTO
      /\ isInOperatingTime(St, 2, task.inp) /\ isInOperatingTime(St, 3, task.inp)) =>
       relayConfigs'[2].isOn # relayConfigs'[3].isOn]_vars

\* C20: the cold-start tick (state after initRelays, default configuration, no
\* valid reading, 02:00) ends with relays 5, 6 and 1 off and relays 2 and 3 as
\* their rules say for cycle minute 0.
C20_ColdStartTick ==
  [][(/\ TickEnds /\ task.inp = ColdStartInput
      /\ \A r \in RelayIds : [relayConfigs'[r] EXCEPT !.isOn = FALSE, !.lastTrigger = MANUAL] = initRelays[r]
      /\ cycleConfig = CycleConfig /\ thresholds = EnvironmentalThresholds) =>
       /\ ~relayConfigs'[5].isOn /\ ~relayConfigs'[6].isOn /\ ~relayConfigs'[1].isOn
       /\ relayConfigs'[2].isOn = case2(St, TRUE, ColdStartInput, CycleConfig).turnOn
       /\ relayConfigs'[3].isOn = case3(St, TRUE, ColdStartInput, CycleConfig).turnOn]_vars

\* C21: a tick that samples a valid CO2 reading of co2High + 1 in the off
\* portion of the cycle, with relay 7 in mode AUTO inside its window (relays 7
\* and 1 off when the tick starts), ends with relay 7 on, trigger
\* ENVIRONMENTAL, and relay 1 on, trigger DEPENDENT.
C21_SpikeSwitchesFansOn ==
  [][(/\ TickEnds
      /\ relayConfigs'[7].state = AUTO /\ isInOperatingTime(St, 7, task.inp)
      /\ cycleMinutes(task.inp, cycleConfig) >= cycleConfig.onDurationMinutes
      /\ task.inp.scd.valid /\ task.inp.scd.co2 = thresholds.co2High + 1) =>
       /\ relayConfigs'[7].isOn /\ relayConfigs'[7].lastTrigger = ENVIRONMENTAL
       /\ relayConfigs'[1].isOn /\ relayConfigs'[1].lastTrigger = DEPENDENT]_vars

SweepEnded == ret.op = "relayControlTask"

\* the rule of relay r evaluated on the table at the end of the tick: what the
\* rule refers to of the other relays is their state now, and "hold prior
\* isOn" refers to relay r's state when the tick started
ruleAtTickEnd(r) ==
  LET st == [cfg |-> [relayConfigs EXCEPT ![r].isOn = before[r].isOn]]
      v == verdict(st, r, isInOperatingTime(st, r, ret.args), ret.args, cycleConfig, thresholds)
  IN IF v.call THEN v.turnOn ELSE before[r].isOn

wasInWindow(id) == isInOperatingTime([cfg |-> before], id, ret.args)

C26_ThresholdCrossingSwitches ==
  [][(TickEnds /\ validSensors(task.inp) > 0) =>
       LET n == validSensors(task.inp)
           t == sumTemperature(task.inp)
           h == sumHumidity(task.inp)
       IN /\ relayConfigs'[6].state = AUTO =>
               /\ avgBelow(t, n, thresholds.temperatureLow) => relayConfigs'[6].isOn
               /\ avgAtLeast(t, n, thresholds.temperatureHigh) => ~relayConfigs'[6].isOn
          /\ (relayConfigs'[5].state = AUTO /\ isInOperatingTime(St, 5, task.inp)) =>
               /\ avgBelow(h, n, thresholds.humidityLow) => relayConfigs'[5].isOn
               /\ (avgAtLeast(h, n, thresholds.humidityHigh) /\ ~relayConfigs'[7].isOn) => ~relayConfigs'[5].isOn]_vars

decidingTriggers(id) ==
  LET inp == ret.args
      base == cycleMinutes(inp, cycleConfig) < cycleConfig.onDurationMinutes
      spike == inp.scd.valid /\ inp.scd.co2 > thresholds.co2High
      low == inp.scd.valid /\ inp.scd.co2 < thresholds.co2Low
  IN CASE id \in {2, 3} -> {SCHEDULE}
       [] id = 6 -> {ENVIRONMENTAL}
       [] ~wasInWindow(id) -> {SCHEDULE}
       [] id = 4 -> IF base /\ ~low THEN {SCHEDULE} ELSE IF low /\ ~base /\ ~before[5].isOn THEN {ENVIRONMENTAL} ELSE {SCHEDULE, ENVIRONMENTAL}
       [] id = 7 -> IF spike \/ (low /\ base) THEN {ENVIRONMENTAL} ELSE {SCHEDULE}
       [] OTHER -> {SCHEDULE, ENVIRONMENTAL}

C31_SwitchIdempotent ==
  [][ret'.op = "physicallyControlRelay" =>
       /\ (relayConfigs[ret'.id].isOn = (ret'.state = ON)) => (relayConfigs' = relayConfigs /\ pinLevel' = pinLevel)
       /\ \A trigger \in SwitchTriggers \cup {MANUAL, DEPENDENT} :
            physicallyControlRelay([cfg |-> relayConfigs', pinLevel |-> pinLevel', mutex |-> mutex'], "task", ret'.id, ret'.state = ON, trigger)
              = [cfg |-> relayConfigs', pinLevel |-> pinLevel', mutex |-> mutex']]_vars

\* C31 witness: the hub, on with relays that depend on it on, was switched on
\* again (the call got the mutex)
C31_SameStateSwitch ==
  /\ ret.op = "physicallyControlRelay" /\ ret.ok /\ ret.id = 1 /\ ret.state = ON
  /\ before[1].isOn
  /\ \E r \in RelayIds : before[r].isOn /\ before[r].hasDependency /\ before[r].dependsOnRelay = 1

-----------------------------------------------------------------------------
(* Specification SpecOverride: forced states against the wrapping clock.     *)
(* The transport layer's calls setRelayState, getRelayState and              *)
(* setOverrideDuration while the control loop sleeps, started at uptimes at  *)
(* which millis() is about to wrap.  In this specification `before` is a     *)
(* history variable: the last force command and the time gone by since.      *)

\* the durations setOverrideDuration is called with: the rejected 0, and one
\* whose millisecond value is above half the clock's range
OverrideDurations == {0, 18}

\* the uptimes the runs start at: just booted; the expiry of a default force
\* is 0 modulo the clock's range; the expiry lies beyond the wrap
OverrideIssueTimes == {0, ClockMod - DEFAULT_USER_OVERRIDE_TIME_MIN * 60 * 1000, ClockMod - 1000}

NoOverride == [issued |-> FALSE, id |-> 0, state |-> "", durationMs |-> 0, elapsed |-> 0]

InitOverride ==
  /\ relayConfigs = initRelays
  /\ pinLevel = [p \in Pins |-> FALSE]
  /\ mutex = "none"
  /\ cycleConfig = CycleConfig
  /\ thresholds = EnvironmentalThresholds
  /\ overrideDurationMinutes = DEFAULT_USER_OVERRIDE_TIME_MIN
  /\ millis \in OverrideIssueTimes
  /\ task = TaskAsleep
  /\ ret = NoRet
  /\ before = NoOverride

\* a force command, issued before the clock has moved on
OverrideSetRelayState ==
  \E relayId \in CmdIds, state \in {ON, OFF} :
    /\ before.elapsed = 0
    /\ LET r == setRelayState(St, "api", relayId, state, millis, overrideDurationMinutes)
       IN /\ Store(r.st, FALSE)
          /\ ret' = Ret("setRelayState", relayId, state, r.ok, stored(relayId))
    /\ before' = [issued |-> TRUE, id |-> relayId, state |-> state, durationMs |-> overrideDurationMinutes * 60 * 1000, elapsed |-> 0]
    /\ UNCHANGED <<cycleConfig, thresholds, overrideDurationMinutes, millis, task>>

OverrideGetRelayState ==
  \E relayId \in CmdIds :
    /\ LET r == getRelayState(St, "api", relayId, millis)
       IN /\ Store(r.st, FALSE)
          /\ ret' = Ret("getRelayState", relayId, r.state, TRUE, stored(relayId))
    /\ UNCHANGED <<cycleConfig, thresholds, overrideDurationMinutes, millis, task, before>>

OverrideSetOverrideDuration ==
  \E minutes \in OverrideDurations :
    /\ LET r == setOverrideDuration(St, overrideDurationMinutes, minutes)
       IN /\ overrideDurationMinutes' = r.minutes
          /\ ret' = RetArgs("setOverrideDuration", 0, <<minutes>>, r.ok)
    /\ UNCHANGED <<relayConfigs, pinLevel, mutex, cycleConfig, thresholds, millis, task, before>>

\* millis() advances while a force command is in force: by AdvanceMs, or up
\* to the millisecond the duration is over, or by the one millisecond after it
OverrideAdvanceClock ==
  \E step \in {AdvanceMs, before.durationMs - before.elapsed, 1} :
    /\ before.issued
    /\ step > 0
    /\ before.elapsed + step <= before.durationMs + 1
    /\ step = 1 => before.elapsed = before.durationMs
    /\ millis' = (millis + step) % ClockMod
    /\ before' = [before EXCEPT !.elapsed = before.elapsed + step]
    /\ ret' = NoRet
    /\ UNCHANGED <<relayConfigs, pinLevel, mutex, cycleConfig, thresholds, overrideDurationMinutes, task>>

NextOverride == OverrideSetRelayState \/ OverrideGetRelayState \/ OverrideSetOverrideDuration \/ OverrideAdvanceClock

SpecOverride == InitOverride /\ [][NextOverride]_vars

\* C32: a read of the relay the last force command was for returns the forced
\* state as long as the clock has advanced by no more than the override
\* duration in force when the command was issued, and AUTO once it has
\* advanced by more, whatever the clock value the command was issued at.
C32_ForcedUntilExpiry ==
  (ret.op = "getRelayState" /\ before.issued /\ ret.id = before.id)
    => ret.state = IF before.elapsed > before.durationMs THEN AUTO ELSE before.state

\* C38: setOverrideDuration(0) is rejected and changes nothing; a call with
\* another value succeeds, stores the value, and leaves the relay table (the
\* mode, expiry time and isOn of every relay) and the outputs as they were;
\* a force command stamps its expiry from the duration stored when it is
\* issued.
C38_DurationForLaterForces ==
  [][/\ ret'.op = "setOverrideDuration" =>
          /\ relayConfigs' = relayConfigs /\ pinLevel' = pinLevel
          /\ ret'.ok = (ret'.args[1] # 0)
          /\ overrideDurationMinutes' = IF ret'.args[1] # 0 THEN ret'.args[1] ELSE overrideDurationMinutes
     /\ (ret'.op = "setRelayState" /\ ret'.ok) =>
          relayConfigs'[ret'.id].overrideUntil = overrideUntilAt(millis, overrideDurationMinutes)]_vars

\* C38 witness: the duration was changed while a relay was forced under the
\* old duration, time having gone by since the command
C38_ChangedWhileForced ==
  /\ ret.op = "setOverrideDuration" /\ ret.ok
  /\ before.issued /\ before.elapsed > 0
  /\ relayConfigs[before.id].state = before.state
  /\ overrideDurationMinutes * 60 * 1000 # before.durationMs

-----------------------------------------------------------------------------
(* Specification SpecRace: the control loop's reads of _cycleConfig against  *)
(* setCycleConfig.  The loop gives the mutex back at line 837 and reads      *)
(* intervalMinutes (line 850 or 876) and onDurationMinutes (line 851 or 877) *)
(* without it; setCycleConfig writes the two fields one after the other      *)
(* (lines 391-392) while it holds the mutex.  Each read and each write is a  *)
(* step.  The loop is started past its mode check (line 829), as in          *)
(* SpecSweep.  In this specification `before` is a history variable: the     *)
(* cycle configurations complete operations have stored.                     *)

\* the arguments setCycleConfig is called with (each passes its validation)
RaceCycleEdits == {<<90, 120>>, <<DefaultOnDurationMinutes, DefaultIntervalMinutes>>}

\* 10:40 and 02:00 with no valid reading
RaceInputs == {TickInput(10, 40, NoReading, NoReading, NoReading), ColdStartInput}

\* the relays whose rule reads the cycle configuration first
RaceRelays == {2, 3}

InitRace ==
  /\ relayConfigs = initRelays
  /\ pinLevel = [p \in Pins |-> FALSE]
  /\ mutex = "none"
  /\ cycleConfig = CycleConfig
  /\ thresholds = EnvironmentalThresholds
  /\ overrideDurationMinutes = DEFAULT_USER_OVERRIDE_TIME_MIN
  /\ millis = 0
  /\ task = TaskAsleep
  /\ ret = NoRet
  /\ before = {CycleConfig}

\* setCycleConfig up to _cycleConfig.onDurationMinutes = onDurationMinutes
RaceSetCycleConfigBegin ==
  \E e \in RaceCycleEdits :
    /\ e[1] < e[2]
    /\ xSemaphoreTake(mutex)
    /\ mutex' = "api"
    /\ cycleConfig' = [cycleConfig EXCEPT !.onDurationMinutes = e[1]]
    /\ ret' = RetArgs("setCycleConfig", 0, e, FALSE)
    /\ UNCHANGED <<relayConfigs, pinLevel, thresholds, overrideDurationMinutes, millis, task, before>>

\* setCycleConfig from _cycleConfig.intervalMinutes = intervalMinutes on
RaceSetCycleConfigEnd ==
  /\ mutex = "api"
  /\ cycleConfig' = [cycleConfig EXCEPT !.intervalMinutes = ret.args[2]]
  /\ mutex' = "none"
  /\ ret' = [ret EXCEPT !.ok = TRUE]
  /\ before' = before \cup {cycleConfig'}
  /\ UNCHANGED <<relayConfigs, pinLevel, thresholds, overrideDurationMinutes, millis, task>>

\* the loop at one of the cycle relays, its mutex given back (line 837)
RaceLoopStart ==
  \E relayId \in RaceRelays, inp \in RaceInputs :
    /\ task.pc = "sleep"
    /\ xSemaphoreTake(mutex)
    /\ task' = [pc |-> "readInterval", relayId |-> relayId, inOperatingTime |-> isInOperatingTime(St, relayId, inp), inp |-> inp, intervalMinutes |-> 0, onDurationMinutes |-> 0]
    /\ ret' = NoRet
    /\ UNCHANGED <<relayConfigs, pinLevel, mutex, cycleConfig, thresholds, overrideDurationMinutes, millis, before>>

\* currentMinuteOfDay % _cycleConfig.intervalMinutes
RaceReadInterval ==
  /\ task.pc = "readInterval"
  /\ task' = [task EXCEPT !.pc = "readOnDuration", !.intervalMinutes = cycleConfig.intervalMinutes]
  /\ UNCHANGED <<relayConfigs, pinLevel, mutex, cycleConfig, thresholds, overrideDurationMinutes, millis, ret, before>>

\* the comparison with _cycleConfig.onDurationMinutes
RaceReadOnDuration ==
  /\ task.pc = "readOnDuration"
  /\ task' = [task EXCEPT !.pc = "apply", !.onDurationMinutes = cycleConfig.onDurationMinutes]
  /\ UNCHANGED <<relayConfigs, pinLevel, mutex, cycleConfig, thresholds, overrideDurationMinutes, millis, ret, before>>

\* the rest of the relay's case, with the two values read; its switches wait
\* for the mutex
RaceApply ==
  /\ task.pc = "apply"
  /\ xSemaphoreTake(mutex)
  /\ Store(applyVerdict(St, "task", task.relayId, task.inOperatingTime, task.inp, [onDurationMinutes |-> task.onDurationMinutes, intervalMinutes |-> task.intervalMinutes], thresholds), FALSE)
  /\ task' = TaskAsleep
  /\ ret' = RetArgs("applyVerdict", task.relayId, <<task.onDurationMinutes, task.intervalMinutes>>, TRUE)
  /\ UNCHANGED <<cycleConfig, thresholds, overrideDurationMinutes, millis, before>>

NextRace == RaceSetCycleConfigBegin \/ RaceSetCycleConfigEnd \/ RaceLoopStart \/ RaceReadInterval \/ RaceReadOnDuration \/ RaceApply

SpecRace == InitRace /\ [][NextRace]_vars

-----------------------------------------------------------------------------
(* Specification SpecWindow: isInOperatingTime as a function of the window   *)
(* and the local time.  The window of relay 3 is set through                 *)
(* setRelayOperatingTime and the test is applied at times of day drawn from  *)
(* WindowTimes.                                                              *)

\* setRelayOperatingTime calls: a day window, its overnight complement, a
\* window of one minute, the whole day, and the overnight window 23:59-00:00
WindowEdits == {<<3, 8, 0, 20, 0>>, <<3, 20, 0, 8, 0>>, <<3, 8, 30, 8, 30>>, <<3, 0, 0, 23, 59>>, <<3, 23, 59, 0, 0>>}

\* the local times <<tm_hour, tm_min>> the test is made at
WindowTimes == {0, 7, 8, 12, 20, 23} \X {0, 29, 30, 31, 59}

WindowSetRelayOperatingTime == SetRelayOperatingTimeFor(WindowEdits)

WindowIsInOperatingTime ==
  \E time \in WindowTimes :
    /\ ret' = RetArgs("isInOperatingTime", 3, time, isInOperatingTime(St, 3, TickInput(time[1], time[2], NoReading, NoReading, NoReading)))
    /\ UNCHANGED <<relayConfigs, pinLevel, mutex, cycleConfig, thresholds, overrideDurationMinutes, millis, task, before>>

NextWindow == WindowSetRelayOperatingTime \/ WindowIsInOperatingTime

SpecWindow == Init /\ [][NextWindow]_vars

\* C35: the window test is true exactly when the minute of day lies in
\* start..end (both ends included) for a window with end >= start, and
\* exactly when it lies in start..1439 or in 0..end for a window with
\* end < start; a window whose start equals its end holds that minute only.
C35_WindowInclusive ==
  ret.op = "isInOperatingTime" =>
    LET t == relayConfigs[ret.id].operatingTime
        m == ret.args[1] * 60 + ret.args[2]
        s == t.startHour * 60 + t.startMinute
        e == t.endHour * 60 + t.endMinute
    IN /\ ret.ok = (IF e >= s THEN m \in s..e ELSE m \in (s..1439) \cup (0..e))
       /\ s = e => (ret.ok = (m = s))

\* C35 witness: the test was made at the last minute of an overnight window
\* and was true
C35_OvernightEndMinute ==
  /\ ret.op = "isInOperatingTime" /\ ret.ok
  /\ relayConfigs[3].operatingTime = [startHour |-> 20, startMinute |-> 0, endHour |-> 8, endMinute |-> 0]
  /\ ret.args = <<8, 0>>

\* C36: whenever no operation is in progress (between the calls of the
\* transport layer and between the control loop's visits to two relays) the
\* relay mutex is free: every operation that took it has given it back.
C36_LockFreeBetweenOperations ==
  mutex = "none"

\* C36 witness: a force command has returned while the control loop is between
\* two relays of a tick, the loop having taken the mutex for the relays before
C36_OperationsReturnedMidTick ==
  /\ ret.op = "setRelayState" /\ ret.ok /\ ret.state = ON
  /\ task.pc = "check" /\ task.relayId > 2
  /\ mutex = "none"

-----------------------------------------------------------------------------
(* Specification SpecCascade: physicallyControlRelay as a unit, as in        *)
(* SpecSwitch, on dependency graphs with chains and cycles.  Each graph is   *)
(* one setRelayDependency accepts edge by edge (it rejects only an edge from *)
(* a relay to itself and a target outside 1..8); relays 1 to 4 are on or off *)
(* in every combination.                                                     *)

\* the chain 4 -> 3 -> 2 -> 1, the cycle 2 <-> 3, and the cycle 2 -> 3 -> 4 -> 2
\* with relay 1 depending on relay 2
CascadeGraphs ==
  {[r \in RelayIds |-> IF r \in DOMAIN e THEN [hasDependency |-> TRUE, dependsOnRelay |-> e[r]] ELSE [hasDependency |-> FALSE, dependsOnRelay |-> 0]] :
     e \in {(2 :> 1) @@ (3 :> 2) @@ (4 :> 3), (2 :> 3) @@ (3 :> 2), (1 :> 2) @@ (2 :> 3) @@ (3 :> 4) @@ (4 :> 2)}}

InitCascade ==
  /\ relayConfigs \in {TableOf(g, s) : g \in CascadeGraphs, s \in SUBSET {1, 2, 3, 4}}
  /\ pinLevel = [p \in Pins |-> \E r \in RelayIds : relayConfigs[r].pin = p /\ relayConfigs[r].isOn]
  /\ mutex = "none"
  /\ cycleConfig = CycleConfig
  /\ thresholds = EnvironmentalThresholds
  /\ overrideDurationMinutes = DEFAULT_USER_OVERRIDE_TIME_MIN
  /\ millis = 0
  /\ task = TaskAsleep
  /\ ret = NoRet
  /\ before = <<>>

NextCascade == PhysicallyControlRelay

SpecCascade == InitCascade /\ [][NextCascade]_vars

\* C37: a switch-off returns for every relay and every graph, chains and
\* cycles included, and it switches no relay on, leaves the relay it was for
\* off, and writes nothing to a relay that is off already (its record, with
\* its lastTrigger, stays as it was), so that no relay is switched off twice.
C37_CascadeSettles ==
  [][(ret'.op = "physicallyControlRelay" /\ ret'.state = OFF) =>
       /\ ret'.ok
       /\ ~relayConfigs'[ret'.id].isOn
       /\ \A r \in RelayIds :
            /\ relayConfigs'[r].isOn => relayConfigs[r].isOn
            /\ ~relayConfigs[r].isOn => relayConfigs'[r] = relayConfigs[r]]_vars

\* C37 witness: relay 2 of the cycle 2 <-> 3 was switched off while both
\* relays were on, and the call returned
C37_CycleSwitchedOff ==
  /\ ret.op = "physicallyControlRelay" /\ ret.ok /\ ret.id = 2 /\ ret.state = OFF
  /\ before[2].isOn /\ before[3].isOn
  /\ before[2].hasDependency /\ before[2].dependsOnRelay = 3
  /\ before[3].hasDependency /\ before[3].dependsOnRelay = 2
  /\ ~relayConfigs[2].isOn

====
